---- MODULE Spec2Model ----
(***************************************************************************)
(* Model of parlai/utils/testing.py: the retry decorator, the SIGALRM      *)
(* based timeout() context manager and the tempdir() context manager       *)
(* (with train_model, its one user in the file).                           *)
(*                                                                         *)
(* Three specifications share the variables:                               *)
(*   Spec         timeout(): up to two guards on one thread, run one after *)
(*                the other or one inside the block of the other, with the *)
(*                process-wide SIGALRM disposition and alarm clock;        *)
(*   SpecRetry    retry(ntries, log_retry) around a scripted operation;    *)
(*   SpecTempdir  tempdir() scopes and train_model over a small file tree. *)
(***************************************************************************)
EXTENDS Integers, Sequences, FiniteSets, TLC

\* ------------------------------------------------------------------ bounds
MaxDur == 2
MaxTime == 4
MaxTries == 3
MaxDirs == 3
MaxDepth == 2

VARIABLES
    \* --- timeout(): process-wide signal state
    handler,    \* disposition of SIGALRM
    alarm,      \* the one process alarm: [left, owner]; left = 0: none armed
    now,        \* elapsed seconds
    \* --- timeout(): the guards
    pc,         \* per guard: idle, installed, block, teardown, done
    dur,        \* per guard: its `time` argument
    pend,       \* per guard: how the block under it ended (thrown in at yield)
    result,     \* per guard: what the caller of the guard observed
    nested,     \* guard 2 was entered inside the block of guard 1
    before,     \* per guard: SIGALRM disposition when it was entered
    armedAt,    \* per guard: time of its signal.alarm call, -1 before it
    blockEnd,   \* per guard: how its block ended, "none" while it has not
    to,         \* per guard: the last TimeoutError raised inside it
    \* --- retry
    ntries, log_retry, script, calls, iter, rpc, rresult, logged,
    \* --- tempdir / train_model
    dirs,       \* temporary directories that exist
    files,      \* files that exist, <<directory, name>>
    stack,      \* open tempdir() scopes, innermost last
    nextId,     \* the directory the next mkdtemp creates
    exited,     \* directories whose scope has exited
    traised,    \* a failure is passing through the open scopes
    trained     \* outcome of the last train_model call

tvars == <<handler, alarm, now, pc, dur, pend, result, nested, before,
           armedAt, blockEnd, to>>
rvars == <<ntries, log_retry, script, calls, iter, rpc, rresult, logged>>
dvars == <<dirs, files, stack, nextId, exited, traised, trained>>
vars == <<tvars, rvars, dvars>>

\* =====================================================================
\* timeout()                                         testing.py 255 - 279
\* =====================================================================
Guards == {1, 2}

SIG_DFL == <<"SIG_DFL", 0>>
SIG_IGN == <<"SIG_IGN", 0>>
UserHandler == <<"user", 0>>
\* the closure _handler of guard g (268-269)
HandlerOf(g) == <<"_handler", g>>

NoAlarm == [left |-> 0, owner |-> 0]
NoTimeout == [phase |-> "none", owner |-> 0, at |-> 0]

\* _handler raises TimeoutError (268-269); SIG_IGN and others never raise.
RaisesTimeout(h) == h[1] = "_handler"

\* signal.alarm(t) (272): replaces whatever alarm was pending; t = 0 only
\* cancels the pending alarm and arms none.
ArmedAlarm(g, t) == IF t = 0 THEN NoAlarm ELSE [left |-> t, owner |-> g]

\* Mutant: the finally clause puts back the disposition found at entry.
ExitHandlerRestore(g) == before[g]

\* The disposition installed by the finally clause (279).
ExitHandler(g) == SIG_IGN

\* Mutant: the except clause swallows the TimeoutError.
GenOutcomeSwallow(e) == IF e = "TimeoutError" THEN "ok" ELSE e

\* Mutant: the generator reports every failure as a timeout.
GenOutcomeMask(e) == IF e = "ok" THEN "ok" ELSE "TimeoutError"

\* What leaves the generator when the block ended with e (274-279):
\* TimeoutError is caught and re-raised, anything else passes the except
\* clause untouched, normal completion stays normal.
GenOutcome(e) == e

\* The frame the thread is executing in: the innermost guard that has been
\* entered and has not exited, 0 for caller code outside every guard.
Active(g) == pc[g] \in {"installed", "block", "teardown"}
Cur == IF Active(2) THEN 2 ELSE IF Active(1) THEN 1 ELSE 0

\* A failure e leaving guard g lands in the block of the enclosing guard,
\* which either catches it or is ended by it.
Escapes(g, e, catch) == g = 2 /\ nested /\ e # "ok" /\ ~catch
CatchChoices(g, e) == IF g = 2 /\ nested /\ e # "ok" THEN BOOLEAN ELSE {FALSE}

\* Guard g exits towards its caller with outcome e.
Finish(g, e, catch) ==
    /\ pc' = [h \in Guards |-> IF h = g THEN "done"
                               ELSE IF Escapes(g, e, catch) THEN "teardown"
                               ELSE pc[h]]
    /\ result' = [result EXCEPT ![g] = e]
    /\ pend' = [h \in Guards |-> IF h # g /\ Escapes(g, e, catch) THEN e
                                 ELSE pend[h]]
    /\ blockEnd' = [h \in Guards |-> IF h # g /\ Escapes(g, e, catch) THEN e
                                     ELSE blockEnd[h]]

\* A TimeoutError raised while frame c executes, in phase ph of c, is also
\* raised (dynamically) inside the block of the enclosing guard.
MarkTimeout(c, ph) ==
    to' = [h \in Guards |->
             IF h = c THEN [phase |-> ph, owner |-> alarm.owner, at |-> now + 1]
             ELSE IF c = 2 /\ nested /\ pc[h] = "block"
                  THEN [phase |-> "block", owner |-> alarm.owner, at |-> now + 1]
             ELSE to[h]]

TimeoutInit ==
    /\ handler \in {SIG_DFL, SIG_IGN, UserHandler}
    /\ alarm = NoAlarm
    /\ now = 0
    /\ pc = [g \in Guards |-> "idle"]
    /\ dur = [g \in Guards |-> 0]
    /\ pend = [g \in Guards |-> "none"]
    /\ result = [g \in Guards |-> "none"]
    /\ nested = FALSE
    /\ before = [g \in Guards |-> SIG_DFL]
    /\ armedAt = [g \in Guards |-> -1]
    /\ blockEnd = [g \in Guards |-> "none"]
    /\ to = [g \in Guards |-> NoTimeout]

\* 266-271: timeout(t) is entered, the assert holds (t >= 0) and
\* signal.signal installs _handler. Guard 2 is entered after guard 1 has
\* exited, or from inside the block of guard 1.
Install(g, t) ==
    /\ pc[g] = "idle"
    /\ t >= 0
    /\ \/ g = 1 /\ nested' = nested
       \/ g = 2 /\ pc[1] = "done" /\ nested' = FALSE
       \/ g = 2 /\ pc[1] = "block" /\ nested' = TRUE
    /\ handler' = HandlerOf(g)
    /\ before' = [before EXCEPT ![g] = handler]
    /\ dur' = [dur EXCEPT ![g] = t]
    /\ pc' = [pc EXCEPT ![g] = "installed"]
    /\ UNCHANGED <<alarm, now, pend, result, armedAt, blockEnd, to>>
    /\ UNCHANGED <<rvars, dvars>>

\* 272-275: signal.alarm(time), then the generator yields to the block.
Arm(g) ==
    /\ pc[g] = "installed"
    /\ alarm' = ArmedAlarm(g, dur[g])
    /\ armedAt' = [armedAt EXCEPT ![g] = now]
    /\ pc' = [pc EXCEPT ![g] = "block"]
    /\ UNCHANGED <<handler, now, dur, pend, result, nested, before, blockEnd, to>>
    /\ UNCHANGED <<rvars, dvars>>

\* The block under guard g completes normally.
BlockReturn(g) ==
    /\ Cur = g /\ pc[g] = "block"
    /\ pc' = [pc EXCEPT ![g] = "teardown"]
    /\ pend' = [pend EXCEPT ![g] = "ok"]
    /\ blockEnd' = [blockEnd EXCEPT ![g] = "ok"]
    /\ UNCHANGED <<handler, alarm, now, dur, result, nested, before, armedAt, to>>
    /\ UNCHANGED <<rvars, dvars>>

\* The block under guard g raises a failure of its own; contextlib throws
\* it into the generator at the yield (275).
BlockRaise(g, e) ==
    /\ Cur = g /\ pc[g] = "block"
    /\ e \in {"AssertionFailure", "OtherFailure"}
    /\ pc' = [pc EXCEPT ![g] = "teardown"]
    /\ pend' = [pend EXCEPT ![g] = e]
    /\ blockEnd' = [blockEnd EXCEPT ![g] = e]
    /\ UNCHANGED <<handler, alarm, now, dur, result, nested, before, armedAt, to>>
    /\ UNCHANGED <<rvars, dvars>>

\* 276-279: the except clause re-raises a TimeoutError, the finally clause
\* sets SIGALRM to SIG_IGN; the pending alarm is left as it is.
Teardown(g, catch) ==
    /\ Cur = g /\ pc[g] = "teardown"
    /\ catch \in CatchChoices(g, GenOutcome(pend[g]))
    /\ handler' = ExitHandler(g)
    /\ Finish(g, GenOutcome(pend[g]), catch)
    /\ UNCHANGED <<alarm, now, dur, nested, before, armedAt, to>>
    /\ UNCHANGED <<rvars, dvars>>

\* A second passes and the alarm, if any, does not expire yet.
Tick ==
    /\ now < MaxTime
    /\ alarm.left # 1
    /\ now' = now + 1
    /\ alarm' = IF alarm.left > 1 THEN [alarm EXCEPT !.left = @ - 1] ELSE alarm
    /\ UNCHANGED <<handler, pc, dur, pend, result, nested, before, armedAt,
                   blockEnd, to>>
    /\ UNCHANGED <<rvars, dvars>>

\* The alarm expires while SIGALRM is ignored: the signal is discarded.
FireIgnored ==
    /\ now < MaxTime
    /\ alarm.left = 1
    /\ handler = SIG_IGN
    /\ now' = now + 1
    /\ alarm' = NoAlarm
    /\ UNCHANGED <<handler, pc, dur, pend, result, nested, before, armedAt,
                   blockEnd, to>>
    /\ UNCHANGED <<rvars, dvars>>

\* The alarm expires between signal.signal (271) and signal.alarm (272) of
\* guard c: _handler raises TimeoutError inside the generator before its
\* try statement, so the guard is left without running the finally clause.
FireInEntry(c, catch) ==
    /\ now < MaxTime
    /\ alarm.left = 1
    /\ RaisesTimeout(handler)
    /\ Cur = c /\ pc[c] = "installed"
    /\ catch \in CatchChoices(c, "TimeoutError")
    /\ now' = now + 1
    /\ alarm' = NoAlarm
    /\ MarkTimeout(c, "entry")
    /\ Finish(c, "TimeoutError", catch)
    /\ UNCHANGED <<handler, dur, nested, before, armedAt>>
    /\ UNCHANGED <<rvars, dvars>>

\* The alarm expires while the block of guard c runs: _handler raises
\* TimeoutError at the point of execution (268-269). The block either
\* catches it and goes on, or is ended by it.
FireInBlock(c, catch) ==
    /\ now < MaxTime
    /\ alarm.left = 1
    /\ RaisesTimeout(handler)
    /\ Cur = c /\ pc[c] = "block"
    /\ catch \in BOOLEAN
    /\ now' = now + 1
    /\ alarm' = NoAlarm
    /\ MarkTimeout(c, "block")
    /\ pc' = [pc EXCEPT ![c] = IF catch THEN "block" ELSE "teardown"]
    /\ pend' = [pend EXCEPT ![c] = IF catch THEN @ ELSE "TimeoutError"]
    /\ blockEnd' = [blockEnd EXCEPT ![c] = IF catch THEN @ ELSE "TimeoutError"]
    /\ UNCHANGED <<handler, dur, result, nested, before, armedAt>>
    /\ UNCHANGED <<rvars, dvars>>

\* The alarm expires after the block of guard c has ended and before
\* line 279 has replaced _handler. Raised inside the try or except part
\* (inFinally = FALSE) the TimeoutError replaces the outcome of the block
\* and the finally clause still runs; raised inside the finally clause
\* (signal.signal handles pending signals before it changes the
\* disposition) it leaves the guard with _handler still installed.
FireInTeardown(c, inFinally, catch) ==
    /\ now < MaxTime
    /\ alarm.left = 1
    /\ RaisesTimeout(handler)
    /\ Cur = c /\ pc[c] = "teardown"
    /\ inFinally \in BOOLEAN
    /\ now' = now + 1
    /\ alarm' = NoAlarm
    /\ MarkTimeout(c, "teardown")
    /\ IF inFinally
       THEN /\ catch \in CatchChoices(c, "TimeoutError")
            /\ Finish(c, "TimeoutError", catch)
       ELSE /\ catch = FALSE
            /\ pend' = [pend EXCEPT ![c] = "TimeoutError"]
            /\ UNCHANGED <<pc, result, blockEnd>>
    /\ UNCHANGED <<handler, dur, nested, before, armedAt>>
    /\ UNCHANGED <<rvars, dvars>>

\* =====================================================================
\* Properties of timeout()
\* =====================================================================
\* The guard that exited last, so that the SIGALRM disposition observed
\* is the one it left behind.
LastExited(g) ==
    /\ pc[g] = "done"
    /\ \/ g = 1 /\ pc[2] = "idle"
       \/ g = 2 /\ ~nested
       \/ g = 2 /\ nested /\ pc[1] = "block"

\* C3: a block under timeout(0) is interrupted at once: no time passes
\* while a block runs under a guard of duration 0.
C3_ZeroExpiresAtOnce ==
    \A g \in Guards : (pc[g] = "block" /\ dur[g] = 0) => now = armedAt[g]

\* C4: once a guard has exited, on whatever path, no countdown armed by
\* that guard is still pending.
C4_NoCountdownAfterExit ==
    \A g \in Guards : pc[g] = "done" => ~(alarm.left > 0 /\ alarm.owner = g)

\* C5: when the block ended before the countdown fired, the SIGALRM
\* disposition after the guard has exited is the one found at entry.
C5_HandlerRestored ==
    \A g \in Guards :
        (LastExited(g) /\ blockEnd[g] # "none" /\ to[g].phase = "none")
            => handler = before[g]

\* C6: when the countdown of a guard of duration > 0 fires while its block
\* runs, a TimeoutError is raised inside the block at that moment, and a
\* TimeoutError that ends the block is what the caller of the guard
\* observes.
C6_RaisedInBlock ==
    \A g \in Guards :
        (/\ alarm.left = 1 /\ alarm.owner = g /\ dur[g] > 0
         /\ pc[g] = "block" /\ now' = now + 1)
            => to'[g] = [phase |-> "block", owner |-> g, at |-> now + 1]
C6_ReachesCaller ==
    \A g \in Guards :
        (pc[g] = "done" /\ blockEnd[g] = "TimeoutError")
            => result[g] = "TimeoutError"
\* C6: the expiry of a guard's own countdown during its block raises
\* TimeoutError in the block, and a TimeoutError ending the block reaches
\* the caller of the guard.
C6_TimeoutSurfaces == [][C6_RaisedInBlock]_vars /\ []C6_ReachesCaller

C6_Witness ==
    \E g \in Guards :
        /\ pc[g] = "done" /\ dur[g] > 0
        /\ to[g] = [phase |-> "block", owner |-> g, at |-> armedAt[g] + dur[g]]
        /\ blockEnd[g] = "TimeoutError" /\ result[g] = "TimeoutError"

\* C7 as stated: a block that raised a failure of its own before the
\* countdown fired makes the caller observe exactly that failure.
C7_OriginalFailureObserved ==
    \A g \in Guards :
        (/\ pc[g] = "done"
         /\ blockEnd[g] \in {"AssertionFailure", "OtherFailure"}
         /\ to[g].phase # "block")
            => result[g] = blockEnd[g]

\* C7 amended: a block that raised a failure of its own makes the caller
\* observe exactly that failure, provided the countdown did not fire
\* before the guard had exited.
C7_FailureObservedUnlessFired ==
    \A g \in Guards :
        (/\ pc[g] = "done"
         /\ blockEnd[g] \in {"AssertionFailure", "OtherFailure"}
         /\ to[g].phase = "none")
            => result[g] = blockEnd[g]

C7_Witness ==
    \E g \in Guards :
        /\ pc[g] = "done" /\ dur[g] > 0 /\ armedAt[g] >= 0
        /\ blockEnd[g] = "OtherFailure" /\ to[g].phase = "none"
        /\ result[g] = "OtherFailure"

\* C9: of two guards run one after the other, the first having ended
\* before its deadline, the second sees a TimeoutError only once it has
\* armed its countdown and its own duration has elapsed.
C9_SecondGuardUndisturbed ==
    (/\ ~nested /\ pc[2] # "idle"
     /\ blockEnd[1] # "none" /\ to[1].phase = "none")
        => (to[2].phase # "none"
              => /\ armedAt[2] >= 0
                 /\ dur[2] > 0
                 /\ to[2].at - armedAt[2] >= dur[2])

\* An inner guard that was entered (it armed its countdown) inside the
\* block of guard 1 has exited and the outer block goes on.
InnerGone == nested /\ pc[2] = "done" /\ armedAt[2] >= 0 /\ pc[1] = "block"

\* C10 as stated: after the inner guard has exited SIGALRM is ignored for
\* the rest of the outer block.
C10_IgnoredAfterInner == InnerGone => handler = SIG_IGN

\* C10 amended: the countdown of the outer guard is gone once the inner
\* one has armed its own; after the inner guard has exited either SIGALRM
\* is ignored or no countdown is pending, and no TimeoutError is raised in
\* the outer block any more.
C10_OuterReplaced ==
    (nested /\ armedAt[2] >= 0) => ~(alarm.left > 0 /\ alarm.owner = 1)
C10_NoDeadline == InnerGone => (handler = SIG_IGN \/ alarm.left = 0)
C10_NoInterrupt == InnerGone => (to'[1] = to[1] /\ blockEnd'[1] # "TimeoutError")
\* C10 (amended): after the inner guard the outer block has no deadline.
C10_OuterUnguarded ==
    [](C10_OuterReplaced /\ C10_NoDeadline) /\ [][C10_NoInterrupt]_vars

C10_Witness ==
    /\ InnerGone /\ dur[1] > 0 /\ dur[2] > 0
    /\ now > armedAt[1] + dur[1]
    /\ now > armedAt[2] + dur[2]
    /\ to[1].phase = "none"
    /\ handler = SIG_IGN

\* =====================================================================
\* retry                                             testing.py 125 - 163
\* =====================================================================
Outcomes == {"ok", "AssertionFailure", "OtherFailure", "TimeoutError"}

\* testself.failureException (157), AssertionError in unittest.TestCase.
FailureException == "AssertionFailure"

\* Mutant: the except clause catches every exception.
CatchesAnything(e) == e # "ok"

\* `except testself.failureException` (157).
Catches(e) == e = FailureException

\* Mutant: the loop runs ntries times before the final call.
LoopAttemptsAll(n) == n

\* Iterations of `for _ in range(self.ntries - 1)` (154).
LoopAttempts(n) == IF n - 1 > 0 THEN n - 1 ELSE 0

\* The outcome of the next invocation of testfn.
NextOutcome == script[calls + 1]

RetryIdle ==
    /\ ntries = 1 /\ log_retry = FALSE /\ script = <<>> /\ calls = 0
    /\ iter = 0 /\ rpc = "off" /\ rresult = "none" /\ logged = 0

\* retry(ntries, log_retry) (142-144) decorates testfn and _wrapper is
\* called; script[i] is what the i-th invocation of testfn does.
RetryInit ==
    /\ ntries \in 1..MaxTries
    /\ log_retry \in BOOLEAN
    /\ script \in [1..(MaxTries + 1) -> Outcomes]
    /\ calls = 0 /\ iter = 0 /\ rpc = "loop" /\ rresult = "none" /\ logged = 0

\* 154-156: an attempt inside the loop returns the value of testfn.
AttemptReturns ==
    /\ rpc = "loop" /\ iter < LoopAttempts(ntries)
    /\ NextOutcome = "ok"
    /\ calls' = calls + 1
    /\ rpc' = "returned" /\ rresult' = NextOutcome
    /\ UNCHANGED <<ntries, log_retry, script, iter, logged>>
    /\ UNCHANGED <<tvars, dvars>>

\* 155-159: an attempt inside the loop raises failureException, which is
\* caught (and logged when log_retry is set); the loop goes on.
AttemptRetried ==
    /\ rpc = "loop" /\ iter < LoopAttempts(ntries)
    /\ NextOutcome # "ok" /\ Catches(NextOutcome)
    /\ calls' = calls + 1
    /\ iter' = iter + 1
    /\ logged' = IF log_retry THEN logged + 1 ELSE logged
    /\ UNCHANGED <<ntries, log_retry, script, rpc, rresult>>
    /\ UNCHANGED <<tvars, dvars>>

\* 155-157: an attempt inside the loop raises something the except clause
\* does not match; it leaves _wrapper.
AttemptPropagates ==
    /\ rpc = "loop" /\ iter < LoopAttempts(ntries)
    /\ NextOutcome # "ok" /\ ~Catches(NextOutcome)
    /\ calls' = calls + 1
    /\ rpc' = "raised" /\ rresult' = NextOutcome
    /\ UNCHANGED <<ntries, log_retry, script, iter, logged>>
    /\ UNCHANGED <<tvars, dvars>>

\* 160-161: the loop is exhausted; the last call is made outside any try.
LastAttempt ==
    /\ rpc = "loop" /\ iter >= LoopAttempts(ntries)
    /\ calls' = calls + 1
    /\ rpc' = IF NextOutcome = "ok" THEN "returned" ELSE "raised"
    /\ rresult' = NextOutcome
    /\ UNCHANGED <<ntries, log_retry, script, iter, logged>>
    /\ UNCHANGED <<tvars, dvars>>

NextRetry ==
    \/ AttemptReturns
    \/ AttemptRetried
    \/ AttemptPropagates
    \/ LastAttempt

\* ---------------------------------------------------------------------
\* Properties of retry
\* ---------------------------------------------------------------------
RetryOver == rpc \in {"returned", "raised"}

RECURSIVE LeadingFailures(_)
\* number of leading invocations, from the i-th on, that raise
\* failureException
LeadingFailures(i) ==
    IF i > Len(script) \/ script[i] # FailureException THEN 0
    ELSE 1 + LeadingFailures(i + 1)

\* the operation fails on exactly its first k invocations, then succeeds
FailsThenSucceeds(k) ==
    /\ LeadingFailures(1) = k
    /\ k < Len(script) => script[k + 1] = "ok"

\* C1: an operation that raises failureException on exactly its first k
\* invocations: with k < ntries the wrapped call returns its value after
\* k + 1 invocations, with k >= ntries it raises failureException after
\* ntries invocations.
C1_RetryBudget ==
    \A k \in 0..(MaxTries + 1) :
        (RetryOver /\ ntries >= 1 /\ FailsThenSucceeds(k))
            => IF k < ntries
               THEN rpc = "returned" /\ rresult = "ok" /\ calls = k + 1
               ELSE rpc = "raised" /\ rresult = FailureException /\ calls = ntries

C1_Witness ==
    /\ RetryOver /\ ntries = MaxTries /\ FailsThenSucceeds(ntries - 1)
    /\ rpc = "returned" /\ calls = ntries

\* C2: with ntries > 1 a failure that is not failureException is never
\* retried: the invocation that raises it is the last one and the caller
\* gets that failure; an operation that always raises it runs once.
C2_OtherNotRetried ==
    (RetryOver /\ ntries > 1)
        => \A i \in 1..calls :
              (script[i] # "ok" /\ script[i] # FailureException)
                  => i = calls /\ rpc = "raised" /\ rresult = script[i]

C2_Witness ==
    /\ RetryOver /\ ntries > 1
    /\ \A i \in 1..Len(script) : script[i] = "OtherFailure"
    /\ calls = 1 /\ rpc = "raised" /\ rresult = "OtherFailure"

\* =====================================================================
\* tempdir / train_model                   testing.py 240 - 252, 282 - 303
\* =====================================================================
\* dirs: the temporary directories that exist; files: <<d, name>> is the
\* file name in directory d, d = 0 standing for a path outside every
\* temporary directory; stack: the tempdir() scopes that are open,
\* innermost last.
TempdirIdle ==
    /\ dirs = {} /\ files = {} /\ stack = <<>> /\ nextId = 1
    /\ exited = {} /\ traised = FALSE /\ trained = "none"

Top == stack[Len(stack)]
Pop == SubSeq(stack, 1, Len(stack) - 1)

\* shutil.rmtree(d) (252) on the set of directories.
Rmtree(ds, d) == ds \ {d}

\* 250-251: mkdtemp creates a fresh directory, the scope is entered.
TempdirEnter ==
    /\ ~traised
    /\ Len(stack) < MaxDepth /\ nextId <= MaxDirs
    /\ dirs' = dirs \cup {nextId}
    /\ stack' = Append(stack, nextId)
    /\ nextId' = nextId + 1
    /\ UNCHANGED <<files, exited, traised, trained>>
    /\ UNCHANGED <<tvars, rvars>>

\* The block writes a file into the innermost temporary directory.
BlockWrite(name) ==
    /\ ~traised /\ stack # <<>>
    /\ <<Top, name>> \notin files
    /\ files' = files \cup {<<Top, name>>}
    /\ UNCHANGED <<dirs, stack, nextId, exited, traised, trained>>
    /\ UNCHANGED <<tvars, rvars>>

\* 252: the block completed, the generator resumes after the yield and
\* removes the directory with everything in it.
TempdirExit ==
    /\ ~traised /\ stack # <<>>
    /\ dirs' = Rmtree(dirs, Top)
    /\ files' = {f \in files : f[1] \in dirs' \cup {0}}
    /\ stack' = Pop
    /\ exited' = exited \cup {Top}
    /\ UNCHANGED <<nextId, traised, trained>>
    /\ UNCHANGED <<tvars, rvars>>

\* 251: the block raised (or a failure from an inner scope passes through
\* it); the exception is thrown into the generator at the yield, which
\* has no try statement, so line 252 is not reached. The enclosing block,
\* if there is one, catches the failure or is ended by it in turn.
TempdirBlockRaises(catch) ==
    /\ stack # <<>>
    /\ stack' = Pop
    /\ exited' = exited \cup {Top}
    /\ traised' = (~catch /\ Len(stack) > 1)
    /\ UNCHANGED <<dirs, files, nextId, trained>>
    /\ UNCHANGED <<tvars, rvars>>

\* 294-303: train_model. The model file goes to the temporary directory
\* unless opt names one, the dict file next to the model file unless opt
\* names one; TrainModel.main writes them and returns or fails.
TrainModel(hasModelFile, hasDictFile, fails, catch) ==
    /\ ~traised
    /\ nextId <= MaxDirs
    /\ LET d == nextId
           mdir == IF hasModelFile THEN 0 ELSE d
           ddir == IF hasDictFile THEN 0 ELSE mdir
           written == files \cup {<<mdir, "model">>, <<ddir, "model.dict">>}
       IN  /\ nextId' = nextId + 1
           /\ exited' = exited \cup {d}
           /\ IF fails
              THEN /\ dirs' = dirs \cup {d}
                   /\ files' = written
                   /\ traised' = (~catch /\ Len(stack) > 0)
                   /\ trained' = "raised"
              ELSE /\ dirs' = Rmtree(dirs \cup {d}, d)
                   /\ files' = {f \in written : f[1] \in dirs' \cup {0}}
                   /\ catch = FALSE
                   /\ traised' = FALSE
                   /\ trained' = "returned"
    /\ UNCHANGED stack
    /\ UNCHANGED <<tvars, rvars>>

NextTempdir ==
    \/ TempdirEnter
    \/ \E name \in {"f"} : BlockWrite(name)
    \/ TempdirExit
    \/ \E catch \in BOOLEAN : TempdirBlockRaises(catch)
    \/ \E hm \in BOOLEAN, hd \in BOOLEAN, fails \in BOOLEAN, catch \in BOOLEAN :
          TrainModel(hm, hd, fails, catch)

\* ---------------------------------------------------------------------
\* Properties of tempdir
\* ---------------------------------------------------------------------
\* C8: a directory created by a tempdir() scope does not exist any more
\* once the scope has exited, normally or with a failure.
C8_CleanedUp == \A d \in exited : d \notin dirs

\* =====================================================================
TimeoutIdle == TimeoutInit /\ handler = SIG_DFL

Init == TimeoutInit /\ RetryIdle /\ TempdirIdle

Next ==
    \/ \E g \in Guards, t \in 0..MaxDur : Install(g, t)
    \/ \E g \in Guards : Arm(g)
    \/ \E g \in Guards : BlockReturn(g)
    \/ \E g \in Guards, e \in {"AssertionFailure", "OtherFailure"} : BlockRaise(g, e)
    \/ \E g \in Guards, catch \in BOOLEAN : Teardown(g, catch)
    \/ Tick
    \/ FireIgnored
    \/ \E c \in Guards, catch \in BOOLEAN : FireInEntry(c, catch)
    \/ \E c \in Guards, catch \in BOOLEAN : FireInBlock(c, catch)
    \/ \E c \in Guards, f \in BOOLEAN, catch \in BOOLEAN : FireInTeardown(c, f, catch)

Spec == Init /\ [][Next]_vars

InitRetry == TimeoutIdle /\ RetryInit /\ TempdirIdle
SpecRetry == InitRetry /\ [][NextRetry]_vars

InitTempdir == TimeoutIdle /\ RetryIdle /\ TempdirIdle
SpecTempdir == InitTempdir /\ [][NextTempdir]_vars

TypeOK ==
    /\ now \in 0..MaxTime
    /\ alarm.left \in 0..MaxDur
    /\ \A g \in Guards : pc[g] \in {"idle", "installed", "block", "teardown", "done"}
====
